---- MODULE Spec2Model ----
(***************************************************************************)
(* Task orchestration engine of the N8N storybook application              *)
(* (src/src/lib/agents/agent-orchestrator.ts, class AgentOrchestrator).    *)
(*                                                                         *)
(* The orchestrator runs on a single JavaScript thread: a handler runs     *)
(* without interruption up to its next `await`, where it yields.  Every    *)
(* action below is one such uninterrupted segment.  The handlers are       *)
(* written as operators over a record of the orchestrator's fields         *)
(* (Do...(s, ...) returns the fields after the call), so that a handler    *)
(* that calls another handler synchronously is the composition of the two. *)
(***************************************************************************)
EXTENDS Integers, Sequences, FiniteSets, TLC

VARIABLES
    tasks,          \* this.tasks: task id -> task record (ids are 1..Len(tasks))
    taskQueue,      \* this.taskQueue: sequence of task ids
    isProcessing,   \* this.isProcessing
    agents,         \* this.agents: agent id -> [status, lastActivity, healthScore]
    execs,          \* executeTask activations that are suspended at an await
    loops,          \* processTaskQueue activations that are suspended at an await
    runs,           \* createInteractiveStorybook activations
    hung,           \* the thread is inside the while loop of processTaskQueue for good
    clock,          \* Date.now(), in minutes
    started,        \* task id -> number of 'task:started' events emitted
    writes,         \* task id -> number of assignments to task.result / task.error
    ret,            \* what the last createTask call handed to its caller
    monitor,        \* when the health monitor last ran, and how many warnings each
                    \* of its last two runs emitted for each agent
    snapshots,      \* what the last two getStatus calls returned, newest last
    router          \* the request router of lib/video-generation.ts, see below

vars == <<tasks, taskQueue, isProcessing, agents, execs, loops, runs, hung,
          clock, started, writes, ret, monitor, snapshots, router>>

(***************************************************************************)
(* Bounds of the model.                                                    *)
(***************************************************************************)
MaxTasks == 4       \* tasks created when only outside callers create tasks
MaxDeps == 1        \* ids in one dependencies array
MaxPhaseTasks == 6  \* tasks created by one createInteractiveStorybook call
MaxOverlap == 3     \* createInteractiveStorybook calls that overlap
MaxMixed == 3       \* tasks created when a pipeline run and outside callers mix
MaxDirect == 3      \* tasks created when outside callers also execute tasks themselves
MaxBatch == 2       \* tasks in one array handed to executeTasksBatch
MaxStarts == 1      \* executions of a task once an outside caller has executed it
MaxRetry == 4       \* tasks created when outside callers retry failed tasks
MaxRetries == 1     \* retries of one task
MaxMonitored == 2   \* tasks created while time passes and the health monitor runs
MaxClock == 122     \* minutes of running time
MaxCancel == 4      \* tasks created when outside callers cancel tasks
MaxRedo == 3        \* tasks created when callers execute analysis tasks themselves
MaxShutdown == 3    \* tasks created around shutdown calls
MaxRequests == 3    \* requests in one orchestrateWorkflow call
MaxIssued == 3      \* routeRequest calls on the request router
MaxInits == 2       \* initializeAgents calls
MaxWorkflows == 1   \* orchestrateWorkflow calls
MaxStatus == 2      \* tasks created while callers ask for the status
MaxStatusClock == 61 \* minutes that pass while callers ask for the status

(***************************************************************************)
(* Program constants.                                                      *)
(***************************************************************************)
maxConcurrentTasks == 5
InitialHealthScore == 100
DefaultTimeout == 5         \* taskConfig.timeout || 300000, in minutes
FullHealthScore == 100      \* the score performHealthCheck starts from
WarningThreshold == 50      \* the score below which it emits 'agent:health_warning'

Undefined == "undefined"
NoTask == 0         \* an id that names no task of the store
LoopOwner == 0      \* the owner of the executions that processTaskQueue awaits
CallerOwner == -1   \* the owner of the executions an outside caller awaits
NoTime == -1        \* a time that is not set (startTime of a task never executed)

AgentIds == {"tambo-mcp-router", "n8n-workflow-analyzer", "openai-content-generator",
             "wan22-video-generator", "accessibility-enhancer", "quality-assurance"}

\* the cases of the switch in routeTaskToAgent
RoutableTypes == {"analyze_workflow", "generate_content", "create_video",
                  "enhance_accessibility", "quality_check", "route_request"}

\* the capabilities that suspend the execution on an external call
AsyncTypes == {"analyze_workflow", "create_video", "route_request"}

\* the agent each execute... method of the router names
AgentOf(type) ==
    CASE type = "analyze_workflow"      -> "n8n-workflow-analyzer"
      [] type = "generate_content"      -> "openai-content-generator"
      [] type = "create_video"          -> "wan22-video-generator"
      [] type = "enhance_accessibility" -> "accessibility-enhancer"
      [] type = "quality_check"         -> "quality-assurance"
      [] type = "route_request"         -> "tambo-mcp-router"

TerminalStatuses == {"completed", "failed", "cancelled"}

(***************************************************************************)
(* The orchestrator's fields as one record.                                *)
(***************************************************************************)
Fields ==
    [tasks |-> tasks, taskQueue |-> taskQueue, isProcessing |-> isProcessing,
     agents |-> agents, execs |-> execs, loops |-> loops, hung |-> hung,
     started |-> started, writes |-> writes]

Commit(s) ==
    /\ tasks' = s.tasks
    /\ taskQueue' = s.taskQueue
    /\ isProcessing' = s.isProcessing
    /\ agents' = s.agents
    /\ execs' = s.execs
    /\ loops' = s.loops
    /\ hung' = s.hung
    /\ started' = s.started
    /\ writes' = s.writes

\* initializeAgents
InitialAgents ==
    [a \in AgentIds |->
        [status |-> "idle", lastActivity |-> 0, healthScore |-> InitialHealthScore]]

\* updateAgentStatus
UpdateAgentStatus(ag, agentId, status) ==
    IF agentId \in DOMAIN ag
    THEN [ag EXCEPT ![agentId].status = status, ![agentId].lastActivity = clock]
    ELSE ag

\* areDependenciesMet
AreDependenciesMet(s, t) ==
    \A depId \in s.tasks[t].dependencies :
        /\ depId \in 1..Len(s.tasks)
        /\ s.tasks[depId].status = "completed"

(***************************************************************************)
(* The capabilities that compute in place (content generation,             *)
(* accessibility enhancement, quality assurance).  The payload is          *)
(* abstracted to the artifact it carries: "full" a well-formed             *)
(* EducationalContent, "empty" the object {}, "undefined" no artifact;     *)
(* deref says that the preferences in the payload make the capability read *)
(* the artifact's steps or elements.                                       *)
(***************************************************************************)
\* executeContentGeneration calling applyRoutingIntelligence without the test
\* `if (routingContext)`: the agent of an absent routing context is read
ContentGenerationRequiringRouting(data) ==
    IF data.routing = Undefined THEN [ok |-> FALSE, val |-> "TypeError"]
    ELSE IF data.artifact = "full" THEN [ok |-> TRUE, val |-> "full"]
    ELSE IF data.routing = "ContentRouterAgent" \/ data.deref
    THEN [ok |-> FALSE, val |-> "TypeError"]
    ELSE [ok |-> TRUE, val |-> "empty"]

\* executeContentGeneration: applyRoutingIntelligence reads the description of
\* the artifact when the routing context names the agent 'ContentRouterAgent',
\* personalizeContent reads its complexity or steps when deref
ContentGeneration(data) ==
    IF data.artifact = "full" THEN [ok |-> TRUE, val |-> "full"]
    ELSE IF data.routing = "ContentRouterAgent" \/ data.deref
    THEN [ok |-> FALSE, val |-> "TypeError"]
    ELSE [ok |-> TRUE, val |-> "empty"]

\* executeAccessibilityEnhancement: enhanceAccessibility
AccessibilityEnhancement(data) ==
    IF data.artifact = "full" THEN [ok |-> TRUE, val |-> "full"]
    ELSE IF data.deref THEN [ok |-> FALSE, val |-> "TypeError"]
    ELSE [ok |-> TRUE, val |-> "empty"]

\* executeQualityAssurance: calculateQualityScore, identifyImprovements
QualityAssurance(data) ==
    IF data.artifact = "full" THEN [ok |-> TRUE, val |-> "improvements"]
    ELSE [ok |-> FALSE, val |-> "TypeError"]

SyncCapability(type, data) ==
    CASE type = "generate_content"      -> ContentGeneration(data)
      [] type = "enhance_accessibility" -> AccessibilityEnhancement(data)
      [] type = "quality_check"         -> QualityAssurance(data)

\* what an external capability can resolve to; the router's answer names the
\* agent 'ContentRouterAgent' or another one
AsyncResult(type) ==
    CASE type = "analyze_workflow" -> {"full"}
      [] type = "create_video"     -> {"video"}
      [] type = "route_request"    -> {"ContentRouterAgent", "OtherAgent"}

(***************************************************************************)
(* executeTask up to its first await: the task is marked running, the      *)
(* router picks the agent, the agent is marked busy and the capability is  *)
(* called.  owner is the activation that awaits this execution.            *)
(***************************************************************************)
\* routeTaskToAgent with a default case that marks the router agent 'error'
\* before it throws
RouteTaskToAgentMarkingRouter(s, t, owner) ==
    LET type == s.tasks[t].type
        data == s.tasks[t].data
    IN  IF type \notin RoutableTypes
        THEN [s EXCEPT !.agents = UpdateAgentStatus(@, "tambo-mcp-router", "error"),
                       !.execs = @ \cup
                {[task |-> t, owner |-> owner, pc |-> "routed",
                  ok |-> FALSE, val |-> "Unknown task type"]}]
        ELSE IF type \in AsyncTypes
        THEN [s EXCEPT !.agents = UpdateAgentStatus(@, AgentOf(type), "busy"),
                       !.execs = @ \cup
                {[task |-> t, owner |-> owner, pc |-> "capability",
                  ok |-> FALSE, val |-> Undefined]}]
        ELSE LET out == SyncCapability(type, data)
             IN  [s EXCEPT !.agents = UpdateAgentStatus(@, AgentOf(type),
                                          IF out.ok THEN "idle" ELSE "error"),
                           !.execs = @ \cup
                    {[task |-> t, owner |-> owner, pc |-> "routed",
                      ok |-> out.ok, val |-> out.val]}]

\* routeTaskToAgent that refuses a task whose agent is in status 'error'
RouteTaskToAgentRefusingErrorAgent(s, t, owner) ==
    LET type == s.tasks[t].type
        data == s.tasks[t].data
    IN  IF type \notin RoutableTypes
        THEN [s EXCEPT !.execs = @ \cup
                {[task |-> t, owner |-> owner, pc |-> "routed",
                  ok |-> FALSE, val |-> "Unknown task type"]}]
        ELSE IF s.agents[AgentOf(type)].status = "error"
        THEN [s EXCEPT !.execs = @ \cup
                {[task |-> t, owner |-> owner, pc |-> "routed",
                  ok |-> FALSE, val |-> "agent unavailable"]}]
        ELSE IF type \in AsyncTypes
        THEN [s EXCEPT !.agents = UpdateAgentStatus(@, AgentOf(type), "busy"),
                       !.execs = @ \cup
                {[task |-> t, owner |-> owner, pc |-> "capability",
                  ok |-> FALSE, val |-> Undefined]}]
        ELSE LET out == SyncCapability(type, data)
             IN  [s EXCEPT !.agents = UpdateAgentStatus(@, AgentOf(type),
                                          IF out.ok THEN "idle" ELSE "error"),
                           !.execs = @ \cup
                    {[task |-> t, owner |-> owner, pc |-> "routed",
                      ok |-> out.ok, val |-> out.val]}]

\* routeTaskToAgent and the execute... methods, up to the await
RouteTaskToAgent(s, t, owner) ==
    LET type == s.tasks[t].type
        data == s.tasks[t].data
    IN  IF type \notin RoutableTypes
        THEN [s EXCEPT !.execs = @ \cup
                {[task |-> t, owner |-> owner, pc |-> "routed",
                  ok |-> FALSE, val |-> "Unknown task type"]}]
        ELSE IF type \in AsyncTypes
        THEN [s EXCEPT !.agents = UpdateAgentStatus(@, AgentOf(type), "busy"),
                       !.execs = @ \cup
                {[task |-> t, owner |-> owner, pc |-> "capability",
                  ok |-> FALSE, val |-> Undefined]}]
        ELSE LET out == SyncCapability(type, data)
             IN  [s EXCEPT !.agents = UpdateAgentStatus(@, AgentOf(type),
                                          IF out.ok THEN "idle" ELSE "error"),
                           !.execs = @ \cup
                    {[task |-> t, owner |-> owner, pc |-> "routed",
                      ok |-> out.ok, val |-> out.val]}]

DoExecuteTask(s, t, owner) ==
    RouteTaskToAgent(
        [s EXCEPT !.tasks[t].status = "running", !.tasks[t].startTime = clock,
                  !.started[t] = @ + 1], t, owner)

(***************************************************************************)
(* processTaskQueue.  One pass of the while loop shifts the head of the    *)
(* queue and pushes it back when its dependencies are not met; the passes  *)
(* up to the first task whose dependencies are met run without an await.   *)
(***************************************************************************)
Eligible(s) == {k \in 1..Len(s.taskQueue) : AreDependenciesMet(s, s.taskQueue[k])}

FirstEligible(s) == CHOOSE k \in Eligible(s) : \A j \in Eligible(s) : k <= j

\* the queue after the tasks before position k were shifted and pushed back
\* and the task at position k was shifted
RequeueBefore(q, k) == SubSeq(q, k + 1, Len(q)) \o SubSeq(q, 1, k - 1)

\* the while loop from its condition to the next await
LoopBody(s) ==
    IF Len(s.taskQueue) = 0
    THEN [s EXCEPT !.isProcessing = FALSE]
    ELSE IF Eligible(s) = {}
    THEN [s EXCEPT !.hung = TRUE]
    ELSE LET k == FirstEligible(s)
             t == s.taskQueue[k]
         IN  DoExecuteTask(
                [s EXCEPT !.taskQueue = RequeueBefore(@, k),
                          !.loops = @ \cup {[task |-> t, pc |-> "await"]}],
                t, LoopOwner)

DoProcessTaskQueue(s) ==
    IF s.isProcessing \/ Len(s.taskQueue) = 0
    THEN s
    ELSE LoopBody([s EXCEPT !.isProcessing = TRUE])

(***************************************************************************)
(* createTask.                                                             *)
(***************************************************************************)
NewTask(taskConfig) ==
    [type |-> taskConfig.type,
     priority |-> IF taskConfig.priority = Undefined THEN "medium"
                  ELSE taskConfig.priority,
     data |-> taskConfig.data,
     status |-> "pending",
     result |-> Undefined,
     error |-> Undefined,
     dependencies |-> taskConfig.dependencies,
     startTime |-> NoTime,
     timeout |-> DefaultTimeout]

DoCreateTask(s, taskConfig) ==
    LET id == Len(s.tasks) + 1
        s1 == [s EXCEPT !.tasks = Append(@, NewTask(taskConfig)),
                        !.taskQueue = Append(@, id),
                        !.started = Append(@, 0),
                        !.writes = Append(@, [result |-> 0, error |-> 0])]
    IN  IF ~s1.isProcessing THEN DoProcessTaskQueue(s1) ELSE s1

\* what createTask hands back, as recorded in ret, and whether the
\* dependencies of the task are met when it does
Returned(s, id, taskConfig) ==
    [task |-> id, config |-> taskConfig,
     outcome |-> IF s.hung THEN "hang" ELSE "returned",
     status |-> s.tasks[id].status,
     met |-> AreDependenciesMet(s, id)]

(***************************************************************************)
(* The request router of lib/video-generation.ts (the class                *)
(* AgentOrchestrator of that file), kept in the one variable router:       *)
(*   agents     this.agents: agent type -> status, "absent" when the map   *)
(*              holds no agent of the type                                 *)
(*   inits      how many times initializeAgents ran                        *)
(*   calls      the routeRequest calls suspended at the await of a         *)
(*              processor                                                  *)
(*   issued     how many routeRequest calls were made                      *)
(*   log        the AgentResponse of every routeRequest call that          *)
(*              returned, oldest first, with what the call did             *)
(*   failed     agent type -> a routeRequest to the agent failed since     *)
(*              initializeAgents last ran                                  *)
(*   workflows  the orchestrateWorkflow calls                              *)
(***************************************************************************)
AgentTypes == {"tambo-mcp-router", "n8n-analyzer", "openai-content",
               "wan22-video", "accessibility", "quality"}

DirectCaller == 0   \* the owner of the routeRequest calls made from outside

\* the constructor: initializeDefaultAgents registers no agent
NewRouter ==
    [agents |-> [a \in AgentTypes |-> "absent"],
     inits |-> 0,
     calls |-> {},
     issued |-> 0,
     log |-> <<>>,
     failed |-> [a \in AgentTypes |-> FALSE],
     workflows |-> <<>>]

\* the AgentRequests callers send: a type that is missing or not, two of the
\* agent types, a payload that is missing or not, a priority
RouterRequests ==
    {q \in [type : {"", "analysis"}, agentType : {"n8n-analyzer", "quality"},
            payload : {Undefined, "full"}, priority : {"high", "normal"}] :
        /\ q.payload = Undefined => (q.type # "" /\ q.agentType = "n8n-analyzer")
        /\ q.type = "" => q.agentType = "n8n-analyzer"}

\* this.agents.get(agentType) finds an agent
Registered(r, agentType) ==
    agentType \in AgentTypes /\ r.agents[agentType] # "absent"

\* the status of the agent a request names, as the map holds it
StatusOf(r, agentType) ==
    IF agentType \in AgentTypes THEN r.agents[agentType] ELSE "absent"

\* initializeAgents: initializeAgent puts a new idle agent under every type
DoInitializeAgents(r) ==
    [r EXCEPT !.agents = [a \in AgentTypes |-> "idle"],
              !.failed = [a \in AgentTypes |-> FALSE],
              !.inits = @ + 1]

\* the error routeRequest throws before it reaches a processor, "none" when
\* it throws none
Rejection(r, request) ==
    IF request.agentType = "" \/ request.type = ""
    THEN "Invalid request: missing agentType or type"
    ELSE IF ~Registered(r, request.agentType) THEN "Agent not found"
    ELSE IF r.agents[request.agentType] = "error" THEN "Agent is in error state"
    ELSE "none"

\* the processors: processN8NAnalyzerRequest reads request.payload.workflowId
\* after its delay, the others read nothing of the request that can be missing
ProcessorThrows(request) ==
    request.agentType = "n8n-analyzer" /\ request.payload = Undefined

\* the catch block of routeRequest: the agent the map holds is marked 'error'
CatchBlock(r, request) ==
    IF Registered(r, request.agentType)
    THEN [r EXCEPT !.agents[request.agentType] = "error",
                   !.failed[request.agentType] = TRUE]
    ELSE r

\* the AgentResponse of a call, with the request, whether an earlier call to
\* the agent had failed and whether the agent was registered when the call was
\* made, whether the processor was invoked, and the status the call leaves
AgentResponse(r, call, success, error, invoked) ==
    [id |-> call.id, request |-> call.request, owner |-> call.owner,
     failedBefore |-> call.failedBefore, registered |-> call.registered,
     success |-> success, error |-> error, invoked |-> invoked,
     agentId |-> IF success \/ Registered(r, call.request.agentType)
                 THEN call.request.agentType ELSE "unknown",
     statusAfter |-> StatusOf(r, call.request.agentType)]

\* routeRequest up to the await of the processor: a request that is rejected
\* gets its response at once, another one marks the agent busy and waits
BeginRoute(r, request, owner) ==
    LET call == [id |-> r.issued + 1, request |-> request, owner |-> owner,
                 gen |-> r.inits,
                 registered |-> Registered(r, request.agentType),
                 failedBefore |-> /\ Registered(r, request.agentType)
                                  /\ r.failed[request.agentType]]
        why == Rejection(r, request)
        r1 == [r EXCEPT !.issued = @ + 1]
    IN  IF why # "none"
        THEN LET r2 == CatchBlock(r1, request)
             IN  [r2 EXCEPT !.log = Append(@, AgentResponse(r2, call, FALSE, why, FALSE))]
        ELSE [r1 EXCEPT !.agents[request.agentType] = "busy",
                        !.calls = @ \cup {call}]

\* routeRequest after the await of the processor: the agent object the call
\* got from the map is marked idle (the map holds another object once
\* initializeAgents ran again), or the catch block runs
EndRoute(r, call) ==
    LET r1 == [r EXCEPT !.calls = @ \ {call}]
    IN  IF ProcessorThrows(call.request)
        THEN LET r2 == CatchBlock(r1, call.request)
             IN  [r2 EXCEPT !.log = Append(@,
                    AgentResponse(r2, call, FALSE, "TypeError", TRUE))]
        ELSE LET r2 == IF call.gen = r1.inits
                       THEN [r1 EXCEPT !.agents[call.request.agentType] = "idle"]
                       ELSE r1
             IN  [r2 EXCEPT !.log = Append(@,
                    AgentResponse(r2, call, TRUE, Undefined, TRUE))]

\* orchestrateWorkflow stopping at every failed request, whatever its priority
StopsOnAnyFailure(result, request) == ~result.success

\* the test `!result.success && request.priority === 'high'` of orchestrateWorkflow
Stops(result, request) == ~result.success /\ request.priority = "high"

\* orchestrateWorkflow.  Iterate is the for loop from its head to the next
\* await that suspends, Deliver the rest of the loop body once routeRequest
\* has returned a result.
RECURSIVE Iterate(_, _)
RECURSIVE Deliver(_, _, _)
Iterate(r, w) ==
    LET wf == r.workflows[w]
    IN  IF Len(wf.results) = Len(wf.requests)
        THEN [r EXCEPT !.workflows[w].pc = "returned"]
        ELSE LET r1 == BeginRoute(r, wf.requests[Len(wf.results) + 1], w)
             IN  IF Len(r1.log) = Len(r.log)
                 THEN [r1 EXCEPT !.workflows[w].pc = "await"]
                 ELSE Deliver(r1, w, r1.log[Len(r1.log)])

Deliver(r, w, result) ==
    LET request == r.workflows[w].requests[Len(r.workflows[w].results) + 1]
        r1 == [r EXCEPT !.workflows[w].results = Append(@, result)]
    IN  IF Stops(result, request)
        THEN [r1 EXCEPT !.workflows[w].pc = "raised"]
        ELSE Iterate(r1, w)

\* the request lists handed to orchestrateWorkflow
RequestLists == UNION {[1..n -> RouterRequests] : n \in 0..MaxRequests}

InitializeAgents ==
    /\ router' = DoInitializeAgents(router)
    /\ UNCHANGED <<tasks, taskQueue, isProcessing, agents, execs, loops, runs, hung,
                   clock, started, writes, ret, monitor, snapshots>>

\* routeRequest called from outside
RouteRequest ==
    /\ \E request \in RouterRequests :
            router' = BeginRoute(router, request, DirectCaller)
    /\ UNCHANGED <<tasks, taskQueue, isProcessing, agents, execs, loops, runs, hung,
                   clock, started, writes, ret, monitor, snapshots>>

\* a processor returns or throws: routeRequest returns its response, and the
\* orchestrateWorkflow call that awaits it goes on
ProcessorReturn ==
    /\ \E call \in router.calls :
        LET r1 == EndRoute(router, call)
        IN  router' = IF call.owner = DirectCaller THEN r1
                      ELSE Deliver(r1, call.owner, r1.log[Len(r1.log)])
    /\ UNCHANGED <<tasks, taskQueue, isProcessing, agents, execs, loops, runs, hung,
                   clock, started, writes, ret, monitor, snapshots>>

OrchestrateWorkflow ==
    /\ \E requests \in RequestLists :
            router' = Iterate(
                [router EXCEPT !.workflows = Append(@,
                    [requests |-> requests, results |-> <<>>, pc |-> "loop"])],
                Len(router.workflows) + 1)
    /\ UNCHANGED <<tasks, taskQueue, isProcessing, agents, execs, loops, runs, hung,
                   clock, started, writes, ret, monitor, snapshots>>

(***************************************************************************)
(* Initial state: the orchestrator as its constructor leaves it.           *)
(***************************************************************************)
NoRet ==
    [task |-> NoTask, outcome |-> "none", status |-> Undefined, met |-> FALSE,
     config |-> [type |-> Undefined, priority |-> Undefined, dependencies |-> {},
                 data |-> [artifact |-> Undefined, deref |-> FALSE, routing |-> Undefined]]]

Init ==
    /\ tasks = <<>>
    /\ taskQueue = <<>>
    /\ isProcessing = FALSE
    /\ agents = InitialAgents
    /\ execs = {}
    /\ loops = {}
    /\ runs = <<>>
    /\ hung = FALSE
    /\ clock = 0
    /\ started = <<>>
    /\ writes = <<>>
    /\ ret = NoRet
    /\ monitor = [active |-> TRUE, lastCheck |-> NoTime,
                  warned |-> [a \in AgentIds |-> 0],
                  previous |-> [a \in AgentIds |-> 0]]
    /\ snapshots = <<>>
    /\ router = NewRouter

(***************************************************************************)
(* createTask called by an outside caller.                                 *)
(***************************************************************************)
NoType == Undefined

\* the configurations outside callers pass: a type the router knows or none,
\* no priority, and dependencies that name any id, known to the store or not
ExternalTypes == {"analyze_workflow", NoType}

ExternalConfigs ==
    {[type |-> type, priority |-> Undefined, dependencies |-> d,
      data |-> [artifact |-> Undefined, deref |-> FALSE, routing |-> Undefined]] :
        type \in ExternalTypes,
        d \in {x \in SUBSET (0..MaxTasks) : Cardinality(x) <= MaxDeps}}

\* the tasks created by pipeline runs
RunTaskIds == UNION {{runs[r].created[i] : i \in 1..Len(runs[r].created)} : r \in 1..Len(runs)}

NumExternal == Len(tasks) - Cardinality(RunTaskIds)

CreateTaskWith(taskConfigs) ==
    /\ ~hung
    /\ \E taskConfig \in taskConfigs :
        LET s == DoCreateTask(Fields, taskConfig)
            id == Len(tasks) + 1
        IN  /\ Commit(s)
            /\ ret' = Returned(s, id, taskConfig)
    /\ UNCHANGED <<runs, clock, monitor, snapshots, router>>

CreateTask == CreateTaskWith(ExternalConfigs)

\* the configurations of callers that execute tasks themselves: an analysis
\* task that depends on tasks of the store, or a content task whose payload
\* holds user preferences and either a workflow analysis or none
DirectConfigs ==
    {[type |-> "analyze_workflow", priority |-> Undefined, dependencies |-> d,
      data |-> [artifact |-> Undefined, deref |-> FALSE, routing |-> Undefined]] :
        d \in {x \in SUBSET (1..Len(tasks)) : Cardinality(x) <= MaxDeps}}
    \cup
    {[type |-> "generate_content", priority |-> Undefined, dependencies |-> {},
      data |-> [artifact |-> artifact, deref |-> TRUE, routing |-> Undefined]] :
        artifact \in {"full", Undefined}}

CreateDirect == CreateTaskWith(DirectConfigs)

\* the configurations of callers that retry failed tasks: analysis tasks that
\* depend on tasks of the store
RetryConfigs == {taskConfig \in DirectConfigs : taskConfig.type = "analyze_workflow"}

CreateRetry == CreateTaskWith(RetryConfigs)

(***************************************************************************)
(* An external capability call returns: the execute... method marks the    *)
(* agent idle and returns, or marks it error and rethrows.                 *)
(***************************************************************************)
CapabilityReturn ==
    /\ ~hung
    /\ \E e \in execs, ok \in BOOLEAN :
        /\ e.pc = "capability"
        /\ LET type == tasks[e.task].type
           IN  /\ agents' = UpdateAgentStatus(agents, AgentOf(type),
                                IF ok THEN "idle" ELSE "error")
               /\ \E val \in IF ok THEN AsyncResult(type) ELSE {"capability error"} :
                    execs' = (execs \ {e}) \cup
                        {[e EXCEPT !.pc = "routed", !.ok = ok, !.val = val]}
    /\ UNCHANGED <<tasks, taskQueue, isProcessing, loops, runs, hung, clock, monitor, snapshots, router,
                   started, writes, ret>>

(***************************************************************************)
(* executeTask after `await this.routeTaskToAgent(task)`: the task is      *)
(* marked completed with its result, or failed with its error, and the     *)
(* OrchestrationResult goes to the activation that awaits it.              *)
(***************************************************************************)
\* an OrchestrationResult that replaces the error message by a fixed text
ResultOfWithFixedError(e) ==
    [task |-> e.task, success |-> e.ok,
     data |-> IF e.ok THEN e.val ELSE Undefined,
     error |-> IF e.ok THEN Undefined ELSE "Task execution failed"]

\* the OrchestrationResult of an execution
ResultOf(e) ==
    [task |-> e.task, success |-> e.ok,
     data |-> IF e.ok THEN e.val ELSE Undefined,
     error |-> IF e.ok THEN Undefined ELSE e.val]

\* executeTask whose catch block writes the agent status 'error' to the task
SettleMarkingError(task, e) ==
    IF e.ok
    THEN [task EXCEPT !.status = "completed", !.result = e.val]
    ELSE [task EXCEPT !.status = "error", !.error = e.val]

\* the task record after executeTask's try block or its catch block
Settle(task, e) ==
    IF e.ok
    THEN [task EXCEPT !.status = "completed", !.result = e.val]
    ELSE [task EXCEPT !.status = "failed", !.error = e.val]

FinishExec ==
    /\ ~hung
    /\ \E e \in execs :
        /\ e.pc = "routed"
        /\ tasks' = [tasks EXCEPT ![e.task] = Settle(@, e)]
        /\ writes' = [writes EXCEPT ![e.task] =
                        IF e.ok THEN [@ EXCEPT !.result = @ + 1]
                        ELSE [@ EXCEPT !.error = @ + 1]]
        /\ execs' = execs \ {e}
        /\ IF e.owner = LoopOwner
           THEN /\ loops' = (loops \ {[task |-> e.task, pc |-> "await"]})
                                \cup {[task |-> e.task, pc |-> "ready"]}
                /\ UNCHANGED runs
           ELSE IF e.owner = CallerOwner
           THEN UNCHANGED <<loops, runs>>
           ELSE /\ runs' = [runs EXCEPT ![e.owner].wait = @ \ {e.task},
                                        ![e.owner].results = @ \cup {ResultOf(e)}]
                /\ UNCHANGED loops
    /\ UNCHANGED <<taskQueue, isProcessing, agents, hung, clock, monitor, snapshots, router, started, ret>>

(***************************************************************************)
(* processTaskQueue after `await this.executeTask(task)`: the next passes  *)
(* of the while loop, or its end and the finally block.                    *)
(***************************************************************************)
LoopResume ==
    /\ ~hung
    /\ \E l \in loops :
        /\ l.pc = "ready"
        /\ Commit(LoopBody([Fields EXCEPT !.loops = @ \ {l}]))
    /\ UNCHANGED <<runs, clock, monitor, snapshots, router, ret>>

(***************************************************************************)
(* The while loop of processTaskQueue when no queued task has its          *)
(* dependencies met: each pass shifts the head and pushes it back, and the *)
(* loop reaches no await, so nothing else of the program runs again.       *)
(***************************************************************************)
LoopSpin ==
    /\ hung
    /\ taskQueue' = Tail(taskQueue) \o <<Head(taskQueue)>>
    /\ UNCHANGED <<tasks, isProcessing, agents, execs, loops, runs, hung, clock, monitor, snapshots, router,
                   started, writes, ret>>

(***************************************************************************)
(* Cancellation.  TaskStatus declares 'cancelled', and the orchestrator    *)
(* has no method that cancels a task.  createTask hands its caller the     *)
(* task object that the store and the backlog hold, so the one way a       *)
(* caller has to cancel a pending task is to set the status of that object.*)
(***************************************************************************)
CancelTask ==
    /\ ~hung
    /\ \E t \in 1..Len(tasks) :
        /\ tasks[t].status = "pending"
        /\ tasks' = [tasks EXCEPT ![t].status = "cancelled"]
    /\ UNCHANGED <<taskQueue, isProcessing, agents, execs, loops, runs, hung, clock,
                   started, writes, ret, monitor, snapshots, router>>

\* the configurations of callers that cancel tasks: analysis tasks without
\* dependencies
CancelConfigs == {taskConfig \in RetryConfigs : taskConfig.dependencies = {}}

CreateCancellable == CreateTaskWith(CancelConfigs)

(***************************************************************************)
(* Time and the health monitor.  The clock counts whole minutes since the  *)
(* construction; every call is taken to happen on a whole minute, so that  *)
(* timeSinceActivity / 60000 is the difference of two clock values.        *)
(***************************************************************************)
\* the minutes that pass between two calls: 40 keeps an idle agent above the
\* warning threshold, 61 takes it below, 101 and more exhaust the score
AdvanceSteps == {40, 61}

Advance ==
    /\ \E d \in AdvanceSteps : clock' = clock + d
    /\ UNCHANGED <<tasks, taskQueue, isProcessing, agents, execs, loops, runs, hung,
                   started, writes, ret, monitor, snapshots, router>>

Max(a, b) == IF a > b THEN a ELSE b

\* Math.max(0, 100 - (timeSinceActivity / 1000)): one point per second
HealthScorePerSecond(minutesSinceActivity) ==
    Max(0, FullHealthScore - 60 * minutesSinceActivity)

\* 100 - (timeSinceActivity / 60000) without Math.max(0, ...)
HealthScoreUnclamped(minutesSinceActivity) ==
    FullHealthScore - minutesSinceActivity

\* Math.max(0, 100 - (timeSinceActivity / 60000))
HealthScoreAt(minutesSinceActivity) ==
    Max(0, FullHealthScore - minutesSinceActivity)

\* a warning emitted only when the score falls below the threshold, not while
\* it stays there
HealthWarningsOnFall(agent, healthScore) ==
    IF healthScore < WarningThreshold /\ agent.healthScore >= WarningThreshold
    THEN 1 ELSE 0

\* the 'agent:health_warning' events one pass of the forEach emits for an agent
\* whose new score is healthScore
HealthWarnings(agent, healthScore) ==
    IF healthScore < WarningThreshold THEN 1 ELSE 0

\* performHealthCheck that also marks 'error' the agents it warns about
PerformHealthCheckMarkingError ==
    /\ ~hung
    /\ monitor.active
    /\ agents' = [a \in AgentIds |->
            LET healthScore == HealthScoreAt(clock - agents[a].lastActivity)
            IN  [agents[a] EXCEPT !.healthScore = healthScore,
                                  !.status = IF healthScore < WarningThreshold
                                             THEN "error" ELSE @]]
    /\ monitor' = [active |-> TRUE, lastCheck |-> clock,
                   warned |-> [a \in AgentIds |->
                        HealthWarnings(agents[a],
                                       HealthScoreAt(clock - agents[a].lastActivity))],
                   previous |-> monitor.warned]
    /\ UNCHANGED <<tasks, taskQueue, isProcessing, execs, loops, runs, hung, clock,
                   started, writes, ret, snapshots, router>>

\* performHealthCheck, the callback of the interval set by startHealthMonitoring
PerformHealthCheck ==
    /\ ~hung
    /\ monitor.active
    /\ agents' = [a \in AgentIds |->
            [agents[a] EXCEPT !.healthScore = HealthScoreAt(clock - agents[a].lastActivity)]]
    /\ monitor' = [active |-> TRUE, lastCheck |-> clock,
                   warned |-> [a \in AgentIds |->
                        HealthWarnings(agents[a],
                                       HealthScoreAt(clock - agents[a].lastActivity))],
                   previous |-> monitor.warned]
    /\ UNCHANGED <<tasks, taskQueue, isProcessing, execs, loops, runs, hung, clock,
                   started, writes, ret, snapshots, router>>

\* the configurations of callers that create tasks while the monitor runs: a
\* type the router knows, or the declared type the router has no case for
MonitoredTypes == {"analyze_workflow", "deploy_storybook"}

MonitoredConfigs ==
    {[type |-> type, priority |-> Undefined, dependencies |-> {},
      data |-> [artifact |-> Undefined, deref |-> FALSE, routing |-> Undefined]] : type \in MonitoredTypes}

CreateMonitored == CreateTaskWith(MonitoredConfigs)

(***************************************************************************)
(* shutdown: the interval of the health monitor is cleared and the         *)
(* isProcessing flag is reset, whatever the scheduler loop is doing.       *)
(***************************************************************************)
Shutdown ==
    /\ ~hung
    /\ monitor' = [monitor EXCEPT !.active = FALSE]
    /\ isProcessing' = FALSE
    /\ UNCHANGED <<tasks, taskQueue, agents, execs, loops, runs, hung,
                   clock, started, writes, ret, snapshots, router>>

(***************************************************************************)
(* getStatus.  A snapshot keeps, next to what the call returned, the task  *)
(* activity up to the call: the 'task:started' events and the result and   *)
(* error assignments of every task, and the executions in flight.          *)
(***************************************************************************)
\* Array.from(this.tasks.values()).filter(t => t.status === status).length
TaskCount(status) == Cardinality({t \in 1..Len(tasks) : tasks[t].status = status})

\* the object getStatus returns
StatusReport ==
    [isProcessing |-> isProcessing,
     queueLength |-> Len(taskQueue),
     agents |-> [a \in AgentIds |->
                    [status |-> agents[a].status,
                     healthScore |-> agents[a].healthScore,
                     lastActivity |-> agents[a].lastActivity]],
     tasks |-> [total |-> Len(tasks),
                pending |-> TaskCount("pending"),
                running |-> TaskCount("running"),
                completed |-> TaskCount("completed"),
                failed |-> TaskCount("failed")],
     uptime |-> clock]

TaskActivity == [started |-> started, writes |-> writes, execs |-> execs]

\* the snapshots once one more is taken
Snapshot(report) ==
    (IF Len(snapshots) = 2 THEN Tail(snapshots) ELSE snapshots)
        \o <<[report |-> report, activity |-> TaskActivity]>>

\* getStatus that counts the call as an activity of every agent
GetStatusTouchingAgents ==
    /\ ~hung
    /\ snapshots' = Snapshot(StatusReport)
    /\ agents' = [a \in AgentIds |-> [agents[a] EXCEPT !.lastActivity = clock]]
    /\ UNCHANGED <<tasks, taskQueue, isProcessing, execs, loops, runs, hung,
                   clock, started, writes, ret, monitor, router>>

GetStatus ==
    /\ ~hung
    /\ snapshots' = Snapshot(StatusReport)
    /\ UNCHANGED <<tasks, taskQueue, isProcessing, agents, execs, loops, runs, hung,
                   clock, started, writes, ret, monitor, router>>

(***************************************************************************)
(* createInteractiveStorybook.  A run is suspended either after it created *)
(* the tasks of a phase (pc "created") or while it awaits their executions *)
(* (pc "await").  The request is abstracted to its two options and to      *)
(* whether the user's preferences (deref) and accessibility needs          *)
(* (needsDeref) make a capability read the steps or elements of the        *)
(* artifact it is given.                                                   *)
(***************************************************************************)
Requests ==
    [includeVideo : BOOLEAN, accessibility : BOOLEAN,
     deref : BOOLEAN, needsDeref : BOOLEAN]

\* the requests without video, accessibility phase or preferences
PlainRequests ==
    {request \in Requests : /\ ~request.includeVideo /\ ~request.accessibility
                            /\ ~request.deref /\ ~request.needsDeref}

\* the requests whose preferences and accessibility needs make no capability
\* read the steps or elements of its artifact, with every combination of options
OptionRequests ==
    {request \in Requests : ~request.deref /\ ~request.needsDeref}

\* the requests with the video phase whose preferences and accessibility
\* needs make no capability read the steps or elements of its artifact
VideoRequests ==
    {request \in Requests : /\ request.includeVideo
                            /\ ~request.deref /\ ~request.needsDeref}

PhaseConfig(type, priority, artifact, deref) ==
    [type |-> type, priority |-> priority, dependencies |-> {},
     data |-> [artifact |-> artifact, deref |-> deref, routing |-> Undefined]]

\* the body up to `await this.createParallelTasks(...)`
StartRun ==
    /\ ~hung
    /\ \E request \in Requests :
        LET c1 == PhaseConfig("analyze_workflow", "high", "full", FALSE)
            c2 == PhaseConfig("route_request", "medium", Undefined, FALSE)
            id1 == Len(tasks) + 1
            id2 == Len(tasks) + 2
            s == DoCreateTask(DoCreateTask(Fields, c1), c2)
        IN  /\ Commit(s)
            /\ ret' = Returned(s, id2, c2)
            /\ runs' = Append(runs,
                    [request |-> request, phase |-> "analysis", pc |-> "created",
                     created |-> <<id1, id2>>, wait |-> {}, results |-> {},
                     artifact |-> "none", error |-> Undefined,
                     events |-> <<"orchestration:started">>])
    /\ UNCHANGED <<clock, monitor, snapshots, router>>

\* the tasks a run executes in its current phase, in the order of the calls
PhaseTasks(run) ==
    IF run.phase = "analysis"
    THEN <<run.created[1], run.created[2]>>
    ELSE <<run.created[Len(run.created)]>>

\* executeTasksBatch: executeTask on each task of the array, in order
RECURSIVE DoExecuteTasksBatch(_, _, _)
DoExecuteTasksBatch(s, ts, owner) ==
    IF ts = <<>> THEN s
    ELSE DoExecuteTasksBatch(DoExecuteTask(s, Head(ts), owner), Tail(ts), owner)

\* the arrays of stored tasks an outside caller hands to executeTasksBatch
\* (to executeTask when the array holds one task)
Batches ==
    UNION {{ts \in [1..n -> 1..Len(tasks)] :
                \A i, j \in 1..n : ts[i] = ts[j] => i = j} : n \in 1..MaxBatch}

\* executeTasksBatch, or executeTask, called by an outside caller on tasks it
\* got from createTask and is not executing already
ExecuteTasksBatch ==
    /\ ~hung
    /\ \E ts \in Batches :
        /\ \A e \in execs : e.owner = CallerOwner => \A i \in 1..Len(ts) : e.task # ts[i]
        /\ Commit(DoExecuteTasksBatch(Fields, ts, CallerOwner))
    /\ UNCHANGED <<runs, clock, monitor, snapshots, router, ret>>

\* executeTask called by an outside caller on a task that failed
RetryTask ==
    /\ ~hung
    /\ \E t \in 1..Len(tasks) :
        /\ tasks[t].status = "failed"
        /\ Commit(DoExecuteTask(Fields, t, CallerOwner))
    /\ UNCHANGED <<runs, clock, monitor, snapshots, router, ret>>

\* executeTasksBatch(analysisTasks), or executeTask on the task of the phase
RunExecute ==
    /\ ~hung
    /\ \E r \in 1..Len(runs) :
        /\ runs[r].pc = "created"
        /\ Commit(DoExecuteTasksBatch(Fields, PhaseTasks(runs[r]), r))
        /\ runs' = [runs EXCEPT ![r].pc = "await",
                        ![r].wait = {PhaseTasks(runs[r])[i] :
                                        i \in 1..Len(PhaseTasks(runs[r]))}]
    /\ UNCHANGED <<clock, monitor, snapshots, router, ret>>

\* the OrchestrationResult a run holds for one of its tasks
ResultFor(run, t) == CHOOSE res \in run.results : res.task = t

\* the accessibility phase entered whatever the request says
AfterVideoAlwaysEnhancing(run, artifact) ==
    [kind |-> "create", phase |-> "accessibility", artifact |-> artifact,
     config |-> PhaseConfig("enhance_accessibility", "high", artifact,
                            run.request.needsDeref)]

\* the phase that follows the video phase, and the content phase without video
AfterVideo(run, artifact) ==
    IF run.request.accessibility
    THEN [kind |-> "create", phase |-> "accessibility", artifact |-> artifact,
          config |-> PhaseConfig("enhance_accessibility", "high", artifact,
                                 run.request.needsDeref)]
    ELSE [kind |-> "create", phase |-> "quality", artifact |-> artifact,
          config |-> PhaseConfig("quality_check", "medium", artifact, FALSE)]

\* the body between the await of one phase and the next await
Continue(run) ==
    LET last == ResultFor(run, run.created[Len(run.created)])
    IN  CASE run.phase = "analysis" ->
                [kind |-> "create", phase |-> "content", artifact |-> run.artifact,
                 config |-> [PhaseConfig("generate_content", "high",
                                ResultFor(run, run.created[1]).data,
                                run.request.deref)
                             EXCEPT !.data.routing =
                                ResultFor(run, run.created[2]).data]]
          [] run.phase = "content" ->
                IF run.request.includeVideo
                THEN IF last.data = Undefined
                     THEN [kind |-> "throw", artifact |-> last.data,
                           error |-> "TypeError in createInteractiveStorybook"]
                     ELSE [kind |-> "create", phase |-> "video", artifact |-> last.data,
                           config |-> PhaseConfig("create_video", "medium",
                                                  last.data, FALSE)]
                ELSE AfterVideo(run, last.data)
          [] run.phase = "video" ->
                \* integrateVideoContent
                IF run.artifact # "full" \/ last.data = Undefined
                THEN [kind |-> "throw", artifact |-> run.artifact,
                      error |-> "TypeError in integrateVideoContent"]
                ELSE AfterVideo(run, run.artifact)
          [] run.phase = "accessibility" ->
                [kind |-> "create", phase |-> "quality", artifact |-> last.data,
                 config |-> PhaseConfig("quality_check", "medium", last.data, FALSE)]
          [] run.phase = "quality" ->
                [kind |-> "return", artifact |-> run.artifact]

\* createInteractiveStorybook whose catch block does not rethrow: the call
\* returns after it emitted 'orchestration:failed'
RunContinueSwallowingError ==
    /\ ~hung
    /\ \E r \in 1..Len(runs) :
        LET run == runs[r]
            next == Continue(run)
        IN  /\ run.pc = "await"
            /\ run.wait = {}
            /\ CASE next.kind = "create" ->
                    LET id == Len(tasks) + 1
                        s == DoCreateTask(Fields, next.config)
                    IN  /\ Commit(s)
                        /\ ret' = Returned(s, id, next.config)
                        /\ runs' = [runs EXCEPT ![r] =
                                [run EXCEPT !.phase = next.phase, !.pc = "created",
                                            !.created = Append(@, id),
                                            !.artifact = next.artifact]]
                 [] next.kind = "throw" ->
                    /\ runs' = [runs EXCEPT ![r] =
                                [run EXCEPT !.pc = "completed", !.error = next.error,
                                            !.artifact = next.artifact,
                                            !.events = Append(@, "orchestration:failed")]]
                    /\ UNCHANGED <<tasks, taskQueue, isProcessing, agents, execs,
                                   loops, hung, started, writes, ret>>
                 [] next.kind = "return" ->
                    /\ runs' = [runs EXCEPT ![r] =
                                [run EXCEPT !.pc = "completed",
                                            !.events = Append(@, "orchestration:completed")]]
                    /\ UNCHANGED <<tasks, taskQueue, isProcessing, agents, execs,
                                   loops, hung, started, writes, ret>>
    /\ UNCHANGED <<clock, monitor, snapshots, router>>

\* the body of createInteractiveStorybook after an await: the next phase, the
\* return or the catch block
RunContinue ==
    /\ ~hung
    /\ \E r \in 1..Len(runs) :
        LET run == runs[r]
            next == Continue(run)
        IN  /\ run.pc = "await"
            /\ run.wait = {}
            /\ CASE next.kind = "create" ->
                    LET id == Len(tasks) + 1
                        s == DoCreateTask(Fields, next.config)
                    IN  /\ Commit(s)
                        /\ ret' = Returned(s, id, next.config)
                        /\ runs' = [runs EXCEPT ![r] =
                                [run EXCEPT !.phase = next.phase, !.pc = "created",
                                            !.created = Append(@, id),
                                            !.artifact = next.artifact]]
                 [] next.kind = "throw" ->
                    /\ runs' = [runs EXCEPT ![r] =
                                [run EXCEPT !.pc = "failed", !.error = next.error,
                                            !.artifact = next.artifact,
                                            !.events = Append(@, "orchestration:failed")]]
                    /\ UNCHANGED <<tasks, taskQueue, isProcessing, agents, execs,
                                   loops, hung, started, writes, ret>>
                 [] next.kind = "return" ->
                    /\ runs' = [runs EXCEPT ![r] =
                                [run EXCEPT !.pc = "completed",
                                            !.events = Append(@, "orchestration:completed")]]
                    /\ UNCHANGED <<tasks, taskQueue, isProcessing, agents, execs,
                                   loops, hung, started, writes, ret>>
    /\ UNCHANGED <<clock, monitor, snapshots, router>>

(***************************************************************************)
(* Specifications.  Each one bounds the calls made from outside.           *)
(***************************************************************************)
\* outside callers create tasks; no pipeline run
CoreBound == Len(tasks) <= MaxTasks /\ Len(runs) = 0

NextCore ==
    \/ CreateTask /\ CoreBound'
    \/ CapabilityReturn
    \/ FinishExec
    \/ LoopResume
    \/ LoopSpin

SpecCore == Init /\ [][NextCore]_vars

\* outside callers create tasks and execute them themselves; no pipeline run
DirectBound ==
    /\ Len(tasks) <= MaxDirect
    /\ Len(runs) = 0
    /\ \A t \in 1..Len(started) : started[t] <= MaxStarts

NextDirect ==
    \/ CreateDirect /\ DirectBound'
    \/ ExecuteTasksBatch /\ DirectBound'
    \/ CapabilityReturn
    \/ FinishExec
    \/ LoopResume
    \/ LoopSpin

SpecDirect == Init /\ [][NextDirect]_vars

\* outside callers create analysis tasks and execute them themselves, where
\* every capability call returns and every continuation that is ready runs
RedoBound ==
    /\ Len(tasks) <= MaxRedo
    /\ Len(runs) = 0
    /\ \A t \in 1..Len(started) : started[t] <= MaxStarts

NextRedo ==
    \/ CreateRetry /\ RedoBound'
    \/ ExecuteTasksBatch /\ RedoBound'
    \/ CapabilityReturn
    \/ FinishExec
    \/ LoopResume
    \/ LoopSpin

LiveRedo ==
    /\ Init /\ [][NextRedo]_vars
    /\ WF_vars(CapabilityReturn)
    /\ WF_vars(FinishExec)
    /\ WF_vars(LoopResume)

\* outside callers create tasks and execute again the ones that failed
RetryBound ==
    /\ Len(tasks) <= MaxRetry
    /\ Len(runs) = 0
    /\ \A t \in 1..Len(started) : started[t] <= 1 + MaxRetries

NextRetry ==
    \/ CreateRetry /\ RetryBound'
    \/ RetryTask /\ RetryBound'
    \/ CapabilityReturn
    \/ FinishExec
    \/ LoopResume
    \/ LoopSpin

SpecRetry == Init /\ [][NextRetry]_vars

\* outside callers create tasks while time passes and the health monitor runs
MonitoredBound ==
    /\ Len(tasks) <= MaxMonitored
    /\ Len(runs) = 0
    /\ clock <= MaxClock

NextMonitored ==
    \/ CreateMonitored /\ MonitoredBound'
    \/ Advance /\ MonitoredBound'
    \/ PerformHealthCheck
    \/ CapabilityReturn
    \/ FinishExec
    \/ LoopResume

SpecMonitored == Init /\ [][NextMonitored]_vars

\* outside callers create tasks and ask for the status while time passes and
\* the health monitor runs
StatusBound ==
    /\ Len(tasks) <= MaxStatus
    /\ Len(runs) = 0
    /\ clock <= MaxStatusClock

NextStatus ==
    \/ CreateMonitored /\ StatusBound'
    \/ GetStatus
    \/ Advance /\ StatusBound'
    \/ PerformHealthCheck
    \/ CapabilityReturn
    \/ FinishExec
    \/ LoopResume

SpecStatus == Init /\ [][NextStatus]_vars

\* outside callers create tasks and shut the orchestrator down
ShutdownBound == Len(tasks) <= MaxShutdown /\ Len(runs) = 0

NextShutdown ==
    \/ CreateMonitored /\ ShutdownBound'
    \/ Shutdown
    \/ CapabilityReturn
    \/ FinishExec
    \/ LoopResume

SpecShutdown == Init /\ [][NextShutdown]_vars

\* callers of the request router: routeRequest and initializeAgents in any
\* order
RouterBound ==
    /\ router.issued <= MaxIssued
    /\ router.inits <= MaxInits
    /\ Len(router.workflows) = 0

NextRouter ==
    \/ InitializeAgents /\ RouterBound'
    \/ RouteRequest /\ RouterBound'
    \/ ProcessorReturn

SpecRouter == Init /\ [][NextRouter]_vars

\* one orchestrateWorkflow call on a request router nobody else sends
\* requests to
WorkflowBound ==
    /\ router.inits <= MaxInits
    /\ Len(router.workflows) <= MaxWorkflows

NextWorkflow ==
    \/ InitializeAgents /\ WorkflowBound'
    \/ OrchestrateWorkflow /\ WorkflowBound'
    \/ ProcessorReturn

SpecWorkflow == Init /\ [][NextWorkflow]_vars

\* outside callers create tasks and cancel pending ones
CancelBound == Len(tasks) <= MaxCancel /\ Len(runs) = 0

NextCancel ==
    \/ CreateCancellable /\ CancelBound'
    \/ CancelTask
    \/ CapabilityReturn
    \/ FinishExec
    \/ LoopResume

SpecCancel == Init /\ [][NextCancel]_vars

\* one pipeline run without the video phase on an orchestrator nobody else uses
PipelineBound ==
    /\ Len(runs) <= 1
    /\ Len(tasks) <= MaxPhaseTasks
    /\ \A r \in 1..Len(runs) : ~runs[r].request.includeVideo

NextPipeline ==
    \/ StartRun /\ PipelineBound'
    \/ RunExecute
    \/ RunContinue /\ PipelineBound'
    \/ CapabilityReturn
    \/ FinishExec
    \/ LoopResume

SpecPipeline == Init /\ [][NextPipeline]_vars

\* one pipeline run with the video phase on an orchestrator nobody else uses
VideoBound ==
    /\ Len(runs) <= 1
    /\ Len(tasks) <= MaxPhaseTasks
    /\ \A r \in 1..Len(runs) : runs[r].request \in VideoRequests

NextVideo ==
    \/ StartRun /\ VideoBound'
    \/ RunExecute
    \/ RunContinue /\ VideoBound'
    \/ CapabilityReturn
    \/ FinishExec
    \/ LoopResume

SpecVideo == Init /\ [][NextVideo]_vars

\* one pipeline run with any combination of options on an orchestrator nobody
\* else uses
OptionsBound ==
    /\ Len(runs) <= 1
    /\ Len(tasks) <= MaxPhaseTasks
    /\ \A r \in 1..Len(runs) : runs[r].request \in OptionRequests

NextOptions ==
    \/ StartRun /\ OptionsBound'
    \/ RunExecute
    \/ RunContinue /\ OptionsBound'
    \/ CapabilityReturn
    \/ FinishExec
    \/ LoopResume

SpecOptions == Init /\ [][NextOptions]_vars

\* pipeline runs that overlap, while the capabilities of their analysis phases
\* are being called or have just returned
OverlapBound ==
    /\ Len(runs) <= MaxOverlap
    /\ \A r \in 1..Len(runs) : runs[r].request \in PlainRequests

NextOverlap ==
    \/ StartRun /\ OverlapBound'
    \/ RunExecute
    \/ CapabilityReturn

SpecOverlap == Init /\ [][NextOverlap]_vars

\* one pipeline run while outside callers create tasks
MixedBound ==
    /\ Len(runs) <= 1
    /\ Len(tasks) <= MaxMixed
    /\ \A r \in 1..Len(runs) : runs[r].request \in PlainRequests

Next ==
    \/ CreateTask /\ MixedBound'
    \/ StartRun /\ MixedBound'
    \/ RunExecute
    \/ RunContinue /\ MixedBound'
    \/ CapabilityReturn
    \/ FinishExec
    \/ LoopResume
    \/ LoopSpin

Spec == Init /\ [][Next]_vars

(***************************************************************************)
(* Properties.                                                             *)
(***************************************************************************)
Store == 1..Len(tasks)

Running == {t \in Store : tasks[t].status = "running"}

\* the tasks for which a step starts a processTaskQueue dispatch
DispatchedByLoop == {l.task : l \in {x \in loops' \ loops : x.pc = "await"}}

\* the queued tasks whose dependencies are met once the step is over
EligibleAfter ==
    {taskQueue'[k] : k \in {j \in 1..Len(taskQueue') :
        AreDependenciesMet([tasks |-> tasks'], taskQueue'[j])}}

\* critical > high > medium > low
Rank(priority) ==
    CASE priority = "critical" -> 4
      [] priority = "high"     -> 3
      [] priority = "medium"   -> 2
      [] priority = "low"      -> 1

\* C1: a task is 'running' only while every id in its dependencies names a
\* task of the store whose status is 'completed'.
DependenciesCompletedWhileRunning ==
    \A t \in Running :
        \A depId \in tasks[t].dependencies :
            depId \in Store /\ tasks[depId].status = "completed"

\* C2: at most maxConcurrentTasks tasks are 'running' at any time.
RunningWithinCeiling == Cardinality(Running) <= maxConcurrentTasks

\* C3: no step changes the status of a task that is completed, failed or
\* cancelled, and the only status changes are pending -> running,
\* running -> completed, running -> failed and pending -> cancelled.
StatusPaths ==
    {<<"pending", "running">>, <<"running", "completed">>,
     <<"running", "failed">>, <<"pending", "cancelled">>}

TerminalIsPermanent ==
    [][\A t \in Store :
        \/ tasks'[t].status = tasks[t].status
        \/ /\ tasks[t].status \notin TerminalStatuses
           /\ <<tasks[t].status, tasks'[t].status>> \in StatusPaths]_vars

\* C4: every task is executed at most once over its life (at most one
\* 'task:started', one capability call).
AtMostOneExecution == \A t \in Store : started[t] <= 1

\* C5: result and error of a task are never both set, each is written at most
\* once, a result is set only on a completed task and an error only on a
\* failed one.
ResultErrorExclusive ==
    \A t \in Store :
        /\ ~(tasks[t].result # Undefined /\ tasks[t].error # Undefined)
        /\ writes[t].result <= 1
        /\ writes[t].error <= 1
        /\ tasks[t].result # Undefined => tasks[t].status = "completed"
        /\ tasks[t].error # Undefined => tasks[t].status = "failed"

\* C6: every createTask call returns, and the task it returns is 'pending'
\* at that moment.
CreateTaskReturnsPending ==
    ret.outcome # "none" => ret.outcome = "returned" /\ ret.status = "pending"

\* C7: a createTask call whose configuration has no type, or names a
\* dependency that is not in the store, ends in an error and adds nothing to
\* the store or to the backlog.
ValidConfig(taskConfig) ==
    /\ taskConfig.type # NoType
    /\ taskConfig.dependencies \subseteq Store

CreateTaskRejectsInvalid ==
    [][(ret' # ret /\ ~ValidConfig(ret'.config)) =>
        /\ ret'.outcome = "error"
        /\ tasks' = tasks
        /\ taskQueue' = taskQueue]_vars

\* C8: when the scheduler dispatches a task, no task left in the backlog with
\* its dependencies met has a higher priority.
HigherPriorityFirst ==
    [][\A t \in DispatchedByLoop : \A u \in EligibleAfter :
        Rank(tasks'[u].priority) <= Rank(tasks'[t].priority)]_vars

\* C9: when the scheduler dispatches a task, no task left in the backlog with
\* its dependencies met has the same priority and was submitted earlier.
SubmissionOrderKept ==
    [][\A t \in DispatchedByLoop : \A u \in EligibleAfter :
        tasks'[u].priority = tasks'[t].priority => t < u]_vars

\* the tasks of which the step starts an execution
StartedInStep ==
    {t \in 1..Len(started') :
        started'[t] > (IF t <= Len(started) THEN started[t] ELSE 0)}

\* C10: in the step that turns a routed task 'failed' its agent's status is
\* 'error', and in the step that turns it 'completed' its agent's status is
\* 'idle'.
AgentStatusAtTransition ==
    [][\A t \in Store :
        tasks[t].type \in RoutableTypes =>
            /\ (tasks'[t].status = "failed" /\ tasks[t].status # "failed")
                => agents'[AgentOf(tasks[t].type)].status = "error"
            /\ (tasks'[t].status = "completed" /\ tasks[t].status # "completed")
                => agents'[AgentOf(tasks[t].type)].status = "idle"]_vars

\* C11: when a step starts the execution of one task whose agent is in status
\* 'error', the agent is not marked 'busy', no capability is called and the
\* execution ends in the error 'agent unavailable'.
ErrorAgentRefusesTask ==
    [][\A t \in StartedInStep :
        (/\ Cardinality(StartedInStep) = 1
         /\ tasks'[t].type \in RoutableTypes
         /\ agents[AgentOf(tasks'[t].type)].status = "error")
        => /\ agents'[AgentOf(tasks'[t].type)].status # "busy"
           /\ \A e \in execs' \ execs :
                e.task = t => /\ e.pc = "routed"
                              /\ ~e.ok
                              /\ e.val = "agent unavailable"]_vars

\* C12: a task whose type has no case in the router fails at routing: the
\* step that starts its execution calls no capability and, when it starts
\* nothing else, changes no agent; no capability call is ever in flight for
\* it; and it leaves 'running' only to become 'failed' with its error set.
UnroutableTypeFails ==
    [][/\ \A t \in StartedInStep :
            tasks'[t].type \notin RoutableTypes =>
                /\ Cardinality(StartedInStep) = 1 => agents' = agents
                /\ \E e \in execs' \ execs :
                        e.task = t /\ e.pc = "routed" /\ ~e.ok
       /\ \A e \in execs' :
            tasks'[e.task].type \notin RoutableTypes => e.pc # "capability"
       /\ \A t \in Store :
            (/\ tasks[t].type \notin RoutableTypes
             /\ tasks[t].status = "running"
             /\ tasks'[t].status # "running")
            => /\ tasks'[t].status = "failed"
               /\ tasks'[t].error = "Unknown task type"
               /\ tasks'[t].result = Undefined]_vars

\* a 'deploy_storybook' task dispatched after time has passed has failed
UnroutableTypeFailed ==
    \E t \in Store :
        /\ tasks[t].type = "deploy_storybook"
        /\ tasks[t].status = "failed"
        /\ tasks[t].error = "Unknown task type"
        /\ tasks[t].startTime > 0

\* C13: no task is 'running' once more time than its timeout has passed since
\* its execution started (by then it has been failed with the error
\* 'timeout').
RunningWithinTimeout ==
    \A t \in Running : clock - tasks[t].startTime <= tasks[t].timeout

\* C14: a pending task that was cancelled stays 'cancelled' and no execution
\* of it is started afterwards.
CancelledNeverDispatched ==
    [][\A t \in Store :
        tasks[t].status = "cancelled"
        => /\ tasks'[t].status = "cancelled"
           /\ t \notin StartedInStep]_vars

\* the results a run holds of its own executions of non-optional phase tasks
\* that failed
FailedPhaseResults(run) ==
    {res \in run.results : ~res.success /\ tasks[res.task].type # "route_request"}

\* C15: a run that holds the failed result of a non-optional phase task
\* (any phase task but route_request) has not completed: it has emitted no
\* 'orchestration:completed' and has returned nothing to its caller.
FailedPhaseAborts ==
    \A r \in 1..Len(runs) :
        FailedPhaseResults(runs[r]) # {}
        => /\ runs[r].pc # "completed"
           /\ \A i \in 1..Len(runs[r].events) :
                runs[r].events[i] # "orchestration:completed"

\* C16: the error a failed run raises is the error of one of its phase tasks
\* that failed, as the run got it from executeTask.
RaisedErrorIsTaskError ==
    \A r \in 1..Len(runs) :
        runs[r].pc = "failed"
        => \E res \in runs[r].results :
                ~res.success /\ runs[r].error = res.error

\* the runs whose request asks for neither video nor accessibility
PlainRuns ==
    {r \in 1..Len(runs) : /\ ~runs[r].request.includeVideo
                          /\ ~runs[r].request.accessibility}

\* the types of the tasks a run created, in the order of their creation
CreatedTypes(run) == [i \in 1..Len(run.created) |-> tasks[run.created[i]].type]

\* the phase tasks of a run that skips video and accessibility
PlainPhaseTypes ==
    <<"analyze_workflow", "route_request", "generate_content", "quality_check">>

\* C17 as stated: a run without video and accessibility creates two phase
\* tasks, one of the analysis and one of the content phase, and no
\* create_video or enhance_accessibility task.
PlainRunCreatesTwoTasks ==
    \A r \in PlainRuns :
        /\ Len(runs[r].created) <= 2
        /\ runs[r].pc = "completed" => Len(runs[r].created) = 2
        /\ \A i \in 1..Len(runs[r].created) :
                CreatedTypes(runs[r])[i] \notin {"create_video", "enhance_accessibility"}

\* C17: a run without video and accessibility creates, in this order, an
\* analyze_workflow, a route_request, a generate_content and a quality_check
\* task and nothing else: the tasks it has created so far are the first of
\* these four, they are all the tasks in the store, and all four exist once
\* it has completed.
PlainRunCreatesFourTasks ==
    \A r \in PlainRuns :
        /\ Len(runs[r].created) <= Len(PlainPhaseTypes)
        /\ CreatedTypes(runs[r]) = SubSeq(PlainPhaseTypes, 1, Len(runs[r].created))
        /\ Len(tasks) = Len(runs[r].created)
        /\ runs[r].pc = "completed" => Len(runs[r].created) = Len(PlainPhaseTypes)

\* a run without video and accessibility has completed with four tasks
PlainRunCompleted ==
    \E r \in PlainRuns :
        /\ runs[r].pc = "completed"
        /\ Len(runs[r].created) = 4
        /\ Len(tasks) = 4

\* the runs whose own execution of route_request failed while their own
\* execution of analyze_workflow succeeded
RoutingFailedRuns ==
    {r \in 1..Len(runs) :
        /\ \E res \in runs[r].results : res.task = runs[r].created[2] /\ ~res.success
        /\ \E res \in runs[r].results : res.task = runs[r].created[1] /\ res.success}

\* C18: a run without video phase whose route_request failed while its
\* analyze_workflow succeeded does not abort; its content task is created
\* with the analysed artifact and no routing context; none of the tasks it
\* creates after the analysis phase is ever failed, and none of their
\* results is a failure; when it completes it returns the full artifact.
RoutingFailureTolerated ==
    \A r \in RoutingFailedRuns :
        /\ runs[r].pc # "failed"
        /\ \A i \in 3..Len(runs[r].created) :
                /\ tasks[runs[r].created[i]].status # "failed"
                /\ \A res \in runs[r].results :
                        res.task = runs[r].created[i] => res.success
        /\ Len(runs[r].created) >= 3
            => /\ tasks[runs[r].created[3]].type = "generate_content"
               /\ tasks[runs[r].created[3]].data.routing = Undefined
               /\ tasks[runs[r].created[3]].data.artifact = "full"
        /\ runs[r].pc = "completed" => runs[r].artifact = "full"

\* a run whose route_request failed has completed with the full artifact
RoutingFailedRunCompleted ==
    \E r \in RoutingFailedRuns :
        /\ runs[r].pc = "completed"
        /\ runs[r].artifact = "full"
        /\ tasks[runs[r].created[3]].status = "completed"

\* C19: in the step that starts an execution of a run's content task, and so
\* marks it 'running', both tasks of the run's analysis phase are 'completed'
\* or 'failed'.
ContentStartsAfterAnalysis ==
    [][\A r \in 1..Len(runs') :
        (/\ Len(runs'[r].created) >= 3
         /\ runs'[r].created[3] \in StartedInStep)
        => \A i \in 1..2 :
                tasks'[runs'[r].created[i]].status \in {"completed", "failed"}]_vars

\* C20: every tick of the health monitor leaves each agent with the health
\* score max(0, 100 - minutes since the agent's last activity), and the
\* health score of every agent is within 0..100 in every state.
HealthScoreAfterTick ==
    /\ [](\A a \in AgentIds : agents[a].healthScore \in 0..100)
    /\ [][PerformHealthCheck
          => \A a \in AgentIds :
                LET minutes == clock' - agents'[a].lastActivity
                IN  agents'[a].healthScore =
                        IF 100 - minutes > 0 THEN 100 - minutes ELSE 0]_vars

\* a tick has just left one agent, inactive for more than 100 minutes, with
\* the score 0 and another agent with a score strictly between 0 and 100
TickClampedAndDecayed ==
    /\ monitor.lastCheck = clock
    /\ \E a, b \in AgentIds :
            /\ clock - agents[a].lastActivity > 100
            /\ agents[a].healthScore = 0
            /\ agents[b].lastActivity > 0
            /\ agents[b].healthScore > 0
            /\ agents[b].healthScore < 100

\* the agents whose last activity is 61 minutes before the end of the step
IdleFor61 == {a \in AgentIds : clock' - agents'[a].lastActivity = 61}

\* C21 as stated: a tick leaves an agent that has been inactive for 61
\* minutes with the health score 0.
ScoreZeroAfter61Minutes ==
    [][PerformHealthCheck
       => \A a \in IdleFor61 : agents'[a].healthScore = 0]_vars

\* C21: a tick leaves an agent that has been inactive for 61 minutes with the
\* health score 39.
Score39After61Minutes ==
    [][PerformHealthCheck
       => \A a \in IdleFor61 : agents'[a].healthScore = 39]_vars

\* a tick has just scored an agent inactive for 61 minutes
ScoredAfter61Minutes ==
    /\ monitor.lastCheck = clock
    /\ \E a \in AgentIds :
            /\ clock - agents[a].lastActivity = 61
            /\ agents[a].healthScore = 39

\* C22: a tick emits one 'agent:health_warning' for each agent whose new
\* score is below 50 and none for the others, whether or not the tick before
\* warned about the agent.
WarningPerTickBelowThreshold ==
    [][PerformHealthCheck
       => \A a \in AgentIds :
            monitor'.warned[a] = IF agents'[a].healthScore < 50 THEN 1 ELSE 0]_vars

\* two ticks in a row have warned about one agent, and the last one has not
\* warned about another whose score is 50 or more
WarnedAgain ==
    \E a, b \in AgentIds :
        /\ monitor.previous[a] = 1
        /\ monitor.warned[a] = 1
        /\ agents[a].healthScore < 50
        /\ monitor.warned[b] = 0
        /\ agents[b].healthScore >= 50
        /\ agents[b].healthScore < 100

\* C23: a tick changes no agent's status or lastActivity, no task, and
\* neither the backlog nor the isProcessing flag; and whatever the health
\* scores are, a task created while the scheduler loop is not processing is
\* started in the step of its creation, and a scheduler loop that resumes
\* with a non-empty backlog starts the task at its head.
TickChangesOnlyHealthScore ==
    [][/\ PerformHealthCheck
          => /\ \A a \in AgentIds :
                    /\ agents'[a].status = agents[a].status
                    /\ agents'[a].lastActivity = agents[a].lastActivity
             /\ tasks' = tasks
             /\ taskQueue' = taskQueue
             /\ isProcessing' = isProcessing
       /\ (Len(tasks') > Len(tasks) /\ ~isProcessing)
          => Len(tasks') \in StartedInStep
       /\ ((\E l \in loops \ loops' : l.pc = "ready") /\ taskQueue # <<>>)
          => Head(taskQueue) \in StartedInStep]_vars

\* a tick has scored an agent below 50 while the agent was busy with one task,
\* and a second task routed to that agent was started later and is running
DispatchedAfterLowScoreTick ==
    \E t1, t2 \in Store :
        LET agent == agents[AgentOf(tasks[t2].type)]
        IN  /\ tasks[t1].type = "analyze_workflow"
            /\ tasks[t2].type = "analyze_workflow"
            /\ tasks[t1].status \in {"completed", "failed"}
            /\ tasks[t2].status = "running"
            /\ agent.status = "busy"
            /\ agent.lastActivity = tasks[t2].startTime
            /\ monitor.lastCheck <= tasks[t2].startTime
            /\ monitor.lastCheck > tasks[t1].startTime
            /\ agent.healthScore = 100 - (monitor.lastCheck - tasks[t1].startTime)
            /\ agent.healthScore < 50

\* C24: a getStatus call changes no agent, no task, and neither the backlog
\* nor the isProcessing flag; and two calls in a row with no task activity
\* in between return the same agent statuses and the same task counts.
GetStatusReadOnly ==
    /\ [][GetStatus => /\ agents' = agents
                       /\ tasks' = tasks
                       /\ taskQueue' = taskQueue
                       /\ isProcessing' = isProcessing]_vars
    /\ [](Len(snapshots) = 2 /\ snapshots[1].activity = snapshots[2].activity
          => /\ \A a \in AgentIds :
                    snapshots[1].report.agents[a].status
                        = snapshots[2].report.agents[a].status
             /\ snapshots[1].report.tasks = snapshots[2].report.tasks)

\* two getStatus calls with no task activity but a health check in between
\* have returned the same counts, with one task running, and different scores
SameCountsAcrossHealthCheck ==
    /\ Len(snapshots) = 2
    /\ snapshots[1].activity = snapshots[2].activity
    /\ snapshots[1].report.tasks = snapshots[2].report.tasks
    /\ snapshots[2].report.tasks.running = 1
    /\ snapshots[2].report.tasks.total = 2
    /\ \E a \in AgentIds :
            /\ snapshots[1].report.agents[a].healthScore
                    # snapshots[2].report.agents[a].healthScore
            /\ snapshots[1].report.agents[a].status = "busy"
            /\ snapshots[2].report.agents[a].status = "busy"

\* C25: the step that turns a task 'failed' changes the status, result and
\* error of no other task; and whatever failed before, the step that starts
\* an execution of a task calls the capability of the task's type (a task of
\* a type the router has no case for fails on its own).
FailureIsIsolated ==
    [][/\ \A t \in Store :
            (tasks[t].status # "failed" /\ tasks'[t].status = "failed")
            => \A u \in Store \ {t} :
                    /\ tasks'[u].status = tasks[u].status
                    /\ tasks'[u].result = tasks[u].result
                    /\ tasks'[u].error = tasks[u].error
       /\ \A t \in StartedInStep :
            \E e \in execs' \ execs :
                /\ e.task = t
                /\ IF tasks'[t].type \in AsyncTypes
                   THEN e.pc = "capability"
                   ELSE IF tasks'[t].type \in RoutableTypes
                   THEN e.ok = SyncCapability(tasks'[t].type, tasks'[t].data).ok
                   ELSE e.val = "Unknown task type"]_vars

\* a task has failed in its capability, and a task created after it and routed
\* to the same agent has completed
CompletedAfterFailure ==
    \E t, u \in Store :
        /\ t < u
        /\ tasks[t].type = tasks[u].type
        /\ tasks[t].type \in RoutableTypes
        /\ tasks[t].dependencies = {}
        /\ tasks[u].dependencies = {}
        /\ tasks[t].status = "failed"
        /\ tasks[t].error = "capability error"
        /\ tasks[u].status = "completed"

\* the tasks one of whose dependencies has been 'failed' at some moment
DependentsOfFailed ==
    {t \in Store : \E d \in tasks[t].dependencies :
                        d \in Store /\ writes[d].error > 0}

\* C26: a task one of whose dependencies has reached 'failed' has never been
\* started, is 'pending' and is in the backlog.
DependentOfFailedStaysPending ==
    \A t \in DependentsOfFailed :
        /\ tasks[t].status = "pending"
        /\ started[t] = 0
        /\ \E k \in 1..Len(taskQueue) : taskQueue[k] = t

\* the results executeTask hands to pipeline runs in the step
ResultsReturnedInStep ==
    UNION {runs'[r].results \ runs[r].results : r \in 1..Len(runs)}

\* C27: in the step in which executeTask returns to a pipeline run, a result
\* with success = false comes with the task 'failed' and the task's error
\* equal to the error of the result, and a result with success = true comes
\* with the task 'completed' and the task's result equal to the data of the
\* result.
ReturnedResultMatchesTask ==
    [][\A res \in ResultsReturnedInStep :
        IF res.success
        THEN /\ tasks'[res.task].status = "completed"
             /\ tasks'[res.task].result = res.data
             /\ res.data # Undefined
        ELSE /\ tasks'[res.task].status = "failed"
             /\ tasks'[res.task].error = res.error
             /\ res.error # Undefined
             /\ res.data = Undefined]_vars

\* a run holds the result of a failed execution and of a successful one, and
\* the tasks still carry that error and that data
RunHoldsFailureAndSuccess ==
    \E r \in 1..Len(runs) : \E res1, res2 \in runs[r].results :
        /\ ~res1.success
        /\ tasks[res1.task].status = "failed"
        /\ tasks[res1.task].error = res1.error
        /\ res2.success
        /\ tasks[res2.task].status = "completed"
        /\ tasks[res2.task].result = res2.data

\* the types of the phase tasks of a request, in the order of the phases
ExpectedPhaseTypes(request) ==
    <<"analyze_workflow", "route_request", "generate_content">>
        \o (IF request.includeVideo THEN <<"create_video">> ELSE <<>>)
        \o (IF request.accessibility THEN <<"enhance_accessibility">> ELSE <<>>)
        \o <<"quality_check">>

\* the tasks of a run are created in the order of the phases, each one after
\* the run got the results of all the tasks it created before
CreatedInPhaseOrder ==
    \A r \in 1..Len(runs) :
        /\ Len(runs[r].created) <= Len(ExpectedPhaseTypes(runs[r].request))
        /\ CreatedTypes(runs[r])
                = SubSeq(ExpectedPhaseTypes(runs[r].request), 1, Len(runs[r].created))
        /\ \A i \in 3..Len(runs[r].created) : \A j \in 1..(i - 1) :
                \E res \in runs[r].results : res.task = runs[r].created[j]

\* C28: the tasks of a run are created in the order of the phases, each one
\* after the run's execution of the tasks before it has returned; a step
\* starts an execution of a phase task only if the task has not been started
\* before and every task the run created before it has been started.
PhasesStartedOnceInOrder ==
    /\ []CreatedInPhaseOrder
    /\ [][\A r \in 1..Len(runs') : \A i \in 1..Len(runs'[r].created) :
            runs'[r].created[i] \in StartedInStep
            => /\ started'[runs'[r].created[i]] = 1
               /\ \A j \in 1..(i - 1) :
                    /\ started'[runs'[r].created[j]] = 1
                    /\ i > 2 => runs'[r].created[j] \notin StartedInStep]_vars

\* the number of tasks of a type that a run has created
CreatedOfType(run, type) ==
    Cardinality({i \in 1..Len(run.created) : tasks[run.created[i]].type = type})

\* C29: a run creates at most one create_video task, and none unless
\* includeVideo is true; at most one enhance_accessibility task, and none
\* unless accessibility is true; and once it is in its quality phase it has
\* created one task for each of the two options that is true.
OptionalPhasesFollowOptions ==
    \A r \in 1..Len(runs) :
        LET videos == CreatedOfType(runs[r], "create_video")
            enhancements == CreatedOfType(runs[r], "enhance_accessibility")
        IN  /\ videos <= (IF runs[r].request.includeVideo THEN 1 ELSE 0)
            /\ enhancements <= (IF runs[r].request.accessibility THEN 1 ELSE 0)
            /\ runs[r].phase = "quality"
               => /\ videos = (IF runs[r].request.includeVideo THEN 1 ELSE 0)
                  /\ enhancements = (IF runs[r].request.accessibility THEN 1 ELSE 0)
            /\ runs[r].phase = "accessibility"
               => videos = (IF runs[r].request.includeVideo THEN 1 ELSE 0)

\* a run with the video phase and without the accessibility phase has
\* completed with one create_video task and no enhance_accessibility task
VideoOnlyRunCompleted ==
    \E r \in 1..Len(runs) :
        /\ runs[r].request.includeVideo
        /\ ~runs[r].request.accessibility
        /\ runs[r].pc = "completed"
        /\ CreatedOfType(runs[r], "create_video") = 1
        /\ CreatedOfType(runs[r], "enhance_accessibility") = 0

\* C30: a task that createTask returned with its dependencies met (it has
\* none, or all of them are 'completed') is 'completed' or 'failed' at some
\* later moment, provided every capability call returns.
EligibleTaskTerminates ==
    \A t \in 1..MaxRedo :
        (ret.task = t /\ ret.met)
            ~> (t \in Store /\ tasks[t].status \in {"completed", "failed"})

\* C31: a scheduler loop that is processing ends at some later moment and
\* resets isProcessing, provided every capability call returns.
LoopEventuallyEnds == isProcessing ~> ~isProcessing

\* C32: at most one activation of processTaskQueue is suspended in its while
\* loop at any time.
SingleSchedulerLoop == Cardinality(loops) <= 1

\* the agents that a capability call still in flight was routed to
AgentsInFlight ==
    {AgentOf(tasks[e.task].type) : e \in {x \in execs : x.pc = "capability"}}

\* C33: an agent is 'busy' as long as a capability call routed to it is in
\* flight, also when two executions use the agent at the same time.
BusyWhileInFlight == \A a \in AgentsInFlight : agents[a].status = "busy"

\* the four counts of a report add up to its total
Partitioned(counts) ==
    counts.pending + counts.running + counts.completed + counts.failed = counts.total

\* C34: the counts getStatus reports partition the task store: every task is
\* 'pending', 'running', 'completed' or 'failed'.
CountsPartitionStore ==
    /\ \A i \in 1..Len(snapshots) : Partitioned(snapshots[i].report.tasks)
    /\ Partitioned(StatusReport.tasks)
    /\ \A t \in 1..Len(tasks) :
            tasks[t].status \in {"pending", "running", "completed", "failed"}

\* getStatus reported a failed task beside a running one
ReportedFailedAndRunning ==
    \E i \in 1..Len(snapshots) :
        /\ snapshots[i].report.tasks.failed = 1
        /\ snapshots[i].report.tasks.running = 1
        /\ snapshots[i].report.tasks.total = 2

\* the events of a run that is under way, of one that returned and of one
\* that raised an error
EventsUnderWay == <<"orchestration:started">>
EventsReturned == <<"orchestration:started", "orchestration:completed">>
EventsRaised == <<"orchestration:started", "orchestration:failed">>

\* C35: a run emits 'orchestration:started' first and, when it finishes,
\* exactly one of 'orchestration:completed' and 'orchestration:failed'; it
\* returns exactly when it emitted the former and raises exactly when it
\* emitted the latter.
OneOutcomeEvent ==
    \A r \in 1..Len(runs) :
        /\ runs[r].events \in {EventsUnderWay, EventsReturned, EventsRaised}
        /\ runs[r].pc = "completed" <=> runs[r].events = EventsReturned
        /\ runs[r].pc = "failed" <=> runs[r].events = EventsRaised

\* a run raised an error after its video phase
RunRaisedInVideoPhase ==
    \E r \in 1..Len(runs) : runs[r].pc = "failed" /\ runs[r].phase = "video"

\* the responses the routeRequest calls have returned so far
Responses == {router.log[i] : i \in 1..Len(router.log)}

\* C36: in the request router the status 'error' is absorbing: a routeRequest
\* made after a call to the same agent failed (and before initializeAgents
\* ran again) returns success = false, invokes no processor and leaves the
\* agent in 'error'; every routeRequest call returns a response, and a request
\* to an agent type that is not registered gets success = false with the agent
\* id 'unknown'.
ErrorIsAbsorbing ==
    /\ \A res \in Responses :
        /\ res.failedBefore
            => ~res.success /\ ~res.invoked /\ res.statusAfter = "error"
        /\ ~res.registered => ~res.success /\ res.agentId = "unknown"
    /\ router.issued = Len(router.log) + Cardinality(router.calls)

\* the routeRequest calls an orchestrateWorkflow call has made: the ones that
\* returned and the ones in flight
RoutedBy(w) ==
    {res.id : res \in {x \in Responses : x.owner = w}}
        \cup {call.id : call \in {x \in router.calls : x.owner = w}}

\* the i-th request of a workflow failed and has the priority 'high'
CriticalFailure(wf, i) ==
    ~wf.results[i].success /\ wf.requests[i].priority = "high"

\* C37: orchestrateWorkflow routes its requests in list order, one at a time;
\* it raises an error at the first failed request of priority 'high' and
\* routes no request after it; a failed request of another priority is
\* recorded in the results and the next request is routed.
WorkflowInListOrder ==
    \A w \in 1..Len(router.workflows) :
        LET wf == router.workflows[w]
            n == Len(wf.results)
            waiting == {call \in router.calls : call.owner = w}
        IN  /\ n <= Len(wf.requests)
            /\ \A i \in 1..n : /\ wf.results[i].request = wf.requests[i]
                               /\ wf.results[i].owner = w
            /\ \A i, j \in 1..n : i < j => wf.results[i].id < wf.results[j].id
            /\ Cardinality(waiting) <= 1
            /\ \A call \in waiting :
                /\ n < Len(wf.requests)
                /\ call.request = wf.requests[n + 1]
                /\ \A i \in 1..n : wf.results[i].id < call.id
            /\ Cardinality(RoutedBy(w)) = n + Cardinality(waiting)
            /\ \A i \in 1..(n - 1) : ~CriticalFailure(wf, i)
            /\ wf.pc = "raised" <=> (n >= 1 /\ CriticalFailure(wf, n))
            /\ wf.pc = "returned"
                <=> (n = Len(wf.requests) /\ (n = 0 \/ ~CriticalFailure(wf, n)))
            /\ wf.pc = "await" <=> waiting # {}

\* a workflow recorded a failed request of priority 'normal', went on, and
\* raised an error at a later request while a request of its list was left
RaisedAfterToleratedFailure ==
    \E w \in 1..Len(router.workflows) :
        LET wf == router.workflows[w]
        IN  /\ wf.pc = "raised"
            /\ Len(wf.results) < Len(wf.requests)
            /\ \E i \in 1..(Len(wf.results) - 1) : ~wf.results[i].success

====
